---------------------------- MODULE Spec2Model ----------------------------
(***************************************************************************)
(* A model of the SQL data cleaner: the cleaning functions of src/main.py  *)
(* and the two handlers of src/app.py that touch the session (Connect and  *)
(* Fetch, Update SQL Table).                                               *)
(*                                                                         *)
(* Text is a sequence of one-character strings, so that strip, lower,      *)
(* title and the regular expressions are computed character by character.  *)
(* A Dataset is a sequence of columns; a column has a name (text), a       *)
(* pandas dtype and one cell per row.                                      *)
(***************************************************************************)
EXTENDS Integers, Sequences, FiniteSets, TLC

VARIABLES
    df,           \* st.session_state["df"]: the Dataset the host holds
    original_df,  \* st.session_state["original_df"]: the backup copy
    loaded,       \* "df" in st.session_state
    table,        \* the remote SQL table, as the last successful write left it
    ops_left,     \* the cleaning operations the model still allows the session
    last          \* history: the last action, its arguments and its outcome

vars == <<df, original_df, loaded, table, ops_left, last>>

----------------------------------------------------------------------------
(* Characters and text                                                     *)

UpperLetters == <<"A","B","C","D","E","F","G","H","I","J","K","L","M",
                  "N","O","P","Q","R","S","T","U","V","W","X","Y","Z">>
LowerLetters == <<"a","b","c","d","e","f","g","h","i","j","k","l","m",
                  "n","o","p","q","r","s","t","u","v","w","x","y","z">>
Digits == <<"0","1","2","3","4","5","6","7","8","9">>

Range(f) == {f[i] : i \in DOMAIN f}

IsUpper(c) == c \in Range(UpperLetters)
IsLower(c) == c \in Range(LowerLetters)
IsLetter(c) == IsUpper(c) \/ IsLower(c)
IsDigit(c) == c \in Range(Digits)
\* \s of the regular expressions and the whitespace of str.strip
IsSpace(c) == c \in {" ", "\t", "\n"}
\* \w of the regular expressions
IsWord(c) == IsLetter(c) \/ IsDigit(c) \/ c = "_"

IndexIn(seq, c) == CHOOSE i \in DOMAIN seq : seq[i] = c

\* str.lower and str.upper, one character
LowerChar(c) == IF IsUpper(c) THEN LowerLetters[IndexIn(UpperLetters, c)] ELSE c
UpperChar(c) == IF IsLower(c) THEN UpperLetters[IndexIn(LowerLetters, c)] ELSE c

Lower(s) == [i \in 1..Len(s) |-> LowerChar(s[i])]
Upper(s) == [i \in 1..Len(s) |-> UpperChar(s[i])]

RECURSIVE LStrip(_)
LStrip(s) == IF s # <<>> /\ IsSpace(Head(s)) THEN LStrip(Tail(s)) ELSE s

RECURSIVE RStrip(_)
RStrip(s) ==
    IF s # <<>> /\ IsSpace(s[Len(s)]) THEN RStrip(SubSeq(s, 1, Len(s) - 1)) ELSE s

\* str.strip()
Strip(s) == RStrip(LStrip(s))

\* str.title(): a letter that follows a letter is lowercased, any other letter
\* is uppercased
Title(s) ==
    [i \in 1..Len(s) |->
        IF i > 1 /\ IsLetter(s[i - 1]) THEN LowerChar(s[i]) ELSE UpperChar(s[i])]

\* The text of s from position i on
From(s, i) == SubSeq(s, i, Len(s))

\* Whether text p, compared case-insensitively, occurs in s at position i
MatchesAt(s, i, p) ==
    /\ i + Len(p) - 1 <= Len(s)
    /\ \A j \in 1..Len(p) : LowerChar(s[i + j - 1]) = p[j]

----------------------------------------------------------------------------
(* Cells, columns, Datasets                                                *)

\* A cell: missing (None, NaN, <NA>), a number n/d in lowest terms, text or a
\* boolean. Every cell carries every field, so that any two cells compare.
Missing == [k |-> "nan", n |-> 0, d |-> 1, s |-> <<>>]
Str(s) == [k |-> "str", n |-> 0, d |-> 1, s |-> s]
Bool(b) == [k |-> "bool", n |-> IF b THEN 1 ELSE 0, d |-> 1, s |-> <<>>]

Abs(x) == IF x < 0 THEN -x ELSE x

RECURSIVE Gcd(_, _)
Gcd(a, b) == IF b = 0 THEN a ELSE Gcd(b, a % b)

\* The number n/d (d > 0) in lowest terms
Num(n, d) ==
    LET g == Gcd(Abs(n), d)
    IN  [k |-> "num", n |-> n \div g, d |-> d \div g, s |-> <<>>]

IsMissing(c) == c.k = "nan"

\* The dtypes that select_dtypes(include=np.number) selects
NumericDtypes == {"int64", "float64", "Int64"}

Column(name, dtype, cells) == [name |-> name, dtype |-> dtype, cells |-> cells]

ColNames(d) == [i \in 1..Len(d) |-> d[i].name]
NRows(d) == IF d = <<>> THEN 0 ELSE Len(d[1].cells)
\* Row r of Dataset d: one cell per column
Row(d, r) == [i \in 1..Len(d) |-> d[i].cells[r]]
Rows(d) == [r \in 1..NRows(d) |-> Row(d, r)]
UniqueNames(d) == \A i, j \in 1..Len(d) : d[i].name = d[j].name => i = j
HasColumn(d, name) == \E i \in 1..Len(d) : d[i].name = name
\* df[name], for a name that labels one column
ColIndex(d, name) == CHOOSE i \in 1..Len(d) : d[i].name = name

\* Dataset d with the rows at the indices of keep (an increasing sequence)
TakeRows(d, keep) ==
    [i \in 1..Len(d) |->
        [d[i] EXCEPT !.cells = [j \in 1..Len(keep) |-> d[i].cells[keep[j]]]]]

\* The indices r of 1..n with P[r], in increasing order
RECURSIVE Filter(_, _)
Filter(n, P) ==
    IF n = 0 THEN <<>>
    ELSE IF P[n] THEN Append(Filter(n - 1, P), n) ELSE Filter(n - 1, P)

----------------------------------------------------------------------------
(* astype(str)                                                             *)

RECURSIVE NatText(_)
NatText(n) ==
    IF n < 10 THEN <<Digits[n + 1]>>
    ELSE Append(NatText(n \div 10), Digits[(n % 10) + 1])

\* str of an integer
IntText(n) == IF n < 0 THEN <<"-">> \o NatText(-n) ELSE NatText(n)

\* The first k digits of the decimal fraction r/d (0 <= r < d), trailing zeros
\* dropped
RECURSIVE FracText(_, _, _)
FracText(r, d, k) ==
    IF r = 0 \/ k = 0 THEN <<>>
    ELSE <<Digits[((r * 10) \div d) + 1]>> \o FracText((r * 10) % d, d, k - 1)

\* The digits repr gives a float's fraction
FloatDigits == 16

\* str of a float n/d: "2.0", "2.5", "0.3333333333333333"
FloatText(n, d) ==
    LET a == Abs(n)
        frac == FracText(a % d, d, FloatDigits)
    IN  (IF n < 0 THEN <<"-">> ELSE <<>>) \o NatText(a \div d) \o <<".">>
            \o (IF frac = <<>> THEN <<"0">> ELSE frac)

\* str(cell) for a cell of a column of the given dtype
ToStr(c, dtype) ==
    CASE c.k = "str" -> c.s
      [] c.k = "bool" -> IF c.n = 1 THEN <<"T","r","u","e">> ELSE <<"F","a","l","s","e">>
      [] c.k = "num" -> IF dtype = "float64" THEN FloatText(c.n, c.d) ELSE IntText(c.n)
      [] c.k = "nan" ->
            CASE dtype = "float64" -> <<"n","a","n">>
              [] dtype = "Int64" -> <<"<","N","A",">">>
              [] OTHER -> <<"N","o","n","e">>

\* df[col].astype(str): every cell becomes text, the missing ones too
AsTypeStr(col) ==
    [col EXCEPT !.dtype = "object",
                !.cells = [r \in 1..Len(col.cells) |-> Str(ToStr(col.cells[r], col.dtype))]]

----------------------------------------------------------------------------
(* The regular expressions of main.py                                      *)

\* re.sub(r"[^a-zA-Z0-9_]", "_", s)
SubNonWord(s) == [i \in 1..Len(s) |-> IF IsWord(s[i]) THEN s[i] ELSE "_"]

\* One column name of standardize_column_names
StandardName(name) == SubNonWord(Lower(Strip(name)))

\* The alternatives (mr|mrs|dr|ms|shri), in the order the pattern tries them
Honorifics == << <<"m","r">>, <<"m","r","s">>, <<"d","r">>, <<"m","s">>,
                 <<"s","h","r","i">> >>

\* \b before position i of s, where s[i] is a word character
WordStartsAt(s, i) == i = 1 \/ ~IsWord(s[i - 1])

\* The position after the whitespace that starts at i (\s*, greedy)
RECURSIVE SkipSpaces(_, _)
SkipSpaces(s, i) == IF i <= Len(s) /\ IsSpace(s[i]) THEN SkipSpaces(s, i + 1) ELSE i

\* Where a match of (?i)\b(mr|mrs|dr|ms|shri)\.?\s* that starts at i ends (the
\* position after it), 0 when none starts there. The first alternative that
\* matches is taken: the rest of the pattern cannot fail.
TitleMatchEnd(s, i) ==
    LET hits == {a \in DOMAIN Honorifics : MatchesAt(s, i, Honorifics[a])}
    IN  IF hits = {} \/ ~WordStartsAt(s, i) THEN 0
        ELSE LET a == CHOOSE x \in hits : \A y \in hits : x <= y
                 j == i + Len(Honorifics[a])
                 k == IF j <= Len(s) /\ s[j] = "." THEN j + 1 ELSE j
             IN  SkipSpaces(s, k)

\* re.sub of the pattern by "" from position i on: every match is removed
RECURSIVE SubTitles(_, _)
SubTitles(s, i) ==
    IF i > Len(s) THEN <<>>
    ELSE LET e == TitleMatchEnd(s, i)
         IN  IF e > 0 THEN SubTitles(s, e) ELSE <<s[i]>> \o SubTitles(s, i + 1)

\* str.replace(r"(?i)\b(mr|mrs|dr|ms|shri)\.?\s*", "", regex=True), one cell
RemoveTitlesText(s) == SubTitles(s, 1)

\* [6-9]\d{9} over the whole of s
IsMobile(s) ==
    /\ Len(s) = 10
    /\ s[1] \in {"6", "7", "8", "9"}
    /\ \A i \in 1..10 : IsDigit(s[i])

\* fullmatch of ^(\+91[-\s]?)?[6-9]\d{9}$
PhoneMatches(s) ==
    \/ IsMobile(s)
    \/ /\ MatchesAt(s, 1, <<"+", "9", "1">>)
       /\ \/ IsMobile(From(s, 4))
          \/ /\ Len(s) >= 4
             /\ s[4] = "-" \/ IsSpace(s[4])
             /\ IsMobile(From(s, 5))

\* [\w\.-]+ over the whole of s
IsDotted(s) == s # <<>> /\ \A i \in 1..Len(s) : IsWord(s[i]) \/ s[i] \in {".", "-"}

\* \w+ over the whole of s
IsWordText(s) == s # <<>> /\ \A i \in 1..Len(s) : IsWord(s[i])

\* fullmatch of ^[\w\.-]+@[\w\.-]+\.\w+$: some split of s into local part, "@",
\* domain, "." and top-level domain
EmailMatches(s) ==
    \E a \in 1..Len(s), p \in 1..Len(s) :
        /\ a < p
        /\ s[a] = "@"
        /\ s[p] = "."
        /\ IsDotted(SubSeq(s, 1, a - 1))
        /\ IsDotted(SubSeq(s, a + 1, p - 1))
        /\ IsWordText(From(s, p + 1))

----------------------------------------------------------------------------
(* Numbers: pd.to_numeric, astype("Int64"), mean, median, mode, z-score     *)

AllDigits(s) == \A i \in 1..Len(s) : IsDigit(s[i])

\* The value of a text of digits
RECURSIVE DigitsValue(_)
DigitsValue(s) ==
    IF s = <<>> THEN 0
    ELSE 10 * DigitsValue(SubSeq(s, 1, Len(s) - 1)) + (IndexIn(Digits, s[Len(s)]) - 1)

RECURSIVE Pow10(_)
Pow10(k) == IF k = 0 THEN 1 ELSE 10 * Pow10(k - 1)

NotANumber == [ok |-> FALSE, int |-> FALSE, n |-> 0, d |-> 1]

\* One text cell under pd.to_numeric: surrounding whitespace and a sign are
\* accepted, then digits with at most one decimal point. Text without a point
\* parses as an integer, text with one as a float. (Exponents, "inf" and
\* "nan" are outside the texts of the model.)
ParseNumber(text) ==
    LET t == Strip(text)
        signed == t # <<>> /\ t[1] \in {"-", "+"}
        sign == IF signed /\ t[1] = "-" THEN -1 ELSE 1
        body == IF signed THEN Tail(t) ELSE t
        dots == {i \in 1..Len(body) : body[i] = "."}
    IN  IF dots = {}
        THEN IF body # <<>> /\ AllDigits(body)
             THEN [ok |-> TRUE, int |-> TRUE, n |-> sign * DigitsValue(body), d |-> 1]
             ELSE NotANumber
        ELSE LET p == CHOOSE i \in dots : TRUE
                 whole == SubSeq(body, 1, p - 1)
                 frac == From(body, p + 1)
             IN  IF /\ Cardinality(dots) = 1
                    /\ AllDigits(whole) /\ AllDigits(frac)
                    /\ Len(whole) + Len(frac) >= 1
                 THEN [ok |-> TRUE, int |-> FALSE,
                       n |-> sign * (DigitsValue(whole) * Pow10(Len(frac)) + DigitsValue(frac)),
                       d |-> Pow10(Len(frac))]
                 ELSE NotANumber

ParseCell(c) == IF c.k = "str" THEN ParseNumber(c.s) ELSE NotANumber

\* pd.to_numeric(df[col], errors="coerce"): a numeric or boolean column passes
\* through; in any other column a cell that does not parse becomes NaN, and the
\* result is int64 when every cell parsed as an integer, float64 otherwise.
ToNumeric(col) ==
    IF col.dtype \in NumericDtypes \cup {"bool"} THEN col
    ELSE LET parsed == [r \in 1..Len(col.cells) |-> ParseCell(col.cells[r])]
         IN  [col EXCEPT
                !.dtype = IF \A r \in 1..Len(parsed) : parsed[r].ok /\ parsed[r].int
                          THEN "int64" ELSE "float64",
                !.cells = [r \in 1..Len(parsed) |->
                              IF parsed[r].ok THEN Num(parsed[r].n, parsed[r].d)
                              ELSE Missing]]

\* Whether astype("Int64") raises: a float column with a non-integral value
\* cannot be cast safely
Int64CastRaises(col) ==
    col.dtype = "float64" /\ \E r \in 1..Len(col.cells) : col.cells[r].d # 1

\* col.astype("Int64"), for a column it does not raise on
AsTypeInt64(col) ==
    [col EXCEPT !.dtype = "Int64",
                !.cells = [r \in 1..Len(col.cells) |->
                              IF IsMissing(col.cells[r]) THEN Missing
                              ELSE Num(col.cells[r].n, 1)]]

\* The cells of a column that are not missing, in row order
RECURSIVE Present(_)
Present(cells) ==
    IF cells = <<>> THEN <<>>
    ELSE IF IsMissing(Head(cells)) THEN Present(Tail(cells))
    ELSE <<Head(cells)>> \o Present(Tail(cells))

RatLess(a, b) == a.n * b.d < b.n * a.d
RatAdd(a, b) == Num(a.n * b.d + b.n * a.d, a.d * b.d)

RECURSIVE RatSum(_)
RatSum(cells) == IF cells = <<>> THEN Num(0, 1) ELSE RatAdd(Head(cells), RatSum(Tail(cells)))

\* Series.mean(): NaN when no value is present
Mean(cells) ==
    LET p == Present(cells)
        t == RatSum(p)
    IN  IF p = <<>> THEN Missing ELSE Num(t.n, t.d * Len(p))

\* The present values in increasing order
RECURSIVE Sorted(_)
Sorted(p) ==
    IF p = <<>> THEN <<>>
    ELSE LET i == CHOOSE x \in 1..Len(p) : \A y \in 1..Len(p) : ~RatLess(p[y], p[x])
         IN  <<p[i]>> \o Sorted(SubSeq(p, 1, i - 1) \o SubSeq(p, i + 1, Len(p)))

\* Series.median(): NaN when no value is present
Median(cells) ==
    LET p == Sorted(Present(cells))
        m == Len(p)
    IN  IF m = 0 THEN Missing
        ELSE IF m % 2 = 1 THEN p[(m + 1) \div 2]
        ELSE LET t == RatAdd(p[m \div 2], p[(m \div 2) + 1]) IN Num(t.n, t.d * 2)

Count(p, v) == Cardinality({i \in 1..Len(p) : p[i] = v})

\* Series.mode(): the most frequent present values in increasing order (an
\* empty Series when no value is present)
Modes(cells) ==
    LET p == Sorted(Present(cells))
        top == {i \in 1..Len(p) : \A j \in 1..Len(p) : Count(p, p[j]) <= Count(p, p[i])}
        firsts == {i \in top : \A j \in 1..(i - 1) : p[j] # p[i]}
    IN  [k \in 1..Cardinality(firsts) |->
            p[CHOOSE i \in firsts : Cardinality({j \in firsts : j < i}) = k - 1]]

----------------------------------------------------------------------------
(* The cleaning functions of main.py, as functions of the Dataset          *)

\* A normalizer that replaces the characters outside [a-zA-Z0-9_] by a space
standardize_with_spaces(d) ==
    [i \in 1..Len(d) |->
        [d[i] EXCEPT !.name =
            LET t == Lower(Strip(d[i].name))
            IN  [j \in 1..Len(t) |-> IF IsWord(t[j]) THEN t[j] ELSE " "]]]

\* df.columns = [re.sub(..., col.strip().lower()) for col in df.columns]
standardize_column_names(d) ==
    [i \in 1..Len(d) |-> [d[i] EXCEPT !.name = StandardName(d[i].name)]]

\* The .str method each text operation applies to a cell's text
TextOp(op, s) ==
    CASE op = "strip" -> Strip(s)
      [] op = "lower" -> Lower(s)
      [] op = "upper" -> Upper(s)
      [] op = "title" -> Title(s)
      [] op = "titles" -> RemoveTitlesText(s)

\* df[col] = df[col].astype(str).str.<op>()
MapText(col, op) ==
    LET t == AsTypeStr(col)
    IN  [t EXCEPT !.cells = [r \in 1..Len(t.cells) |-> Str(TextOp(op, t.cells[r].s))]]

\* The loop "for col in cols: df[col] = ..." of the text operations: the
\* columns are rewritten independently of each other
MapColumns(d, cols, op) ==
    [i \in 1..Len(d) |-> IF d[i].name \in cols THEN MapText(d[i], op) ELSE d[i]]

trim_whitespaces(d, cols) == MapColumns(d, cols, "strip")

normalize_case(d, cols, case_type) ==
    MapColumns(d, cols, IF case_type = "lower" THEN "lower" ELSE "upper")

capitalize_words(d, cols) == MapColumns(d, cols, "title")

remove_extra_titles(d, name_col) == MapColumns(d, {name_col}, "titles")

\* Whether row r of d holds a missing value in one of the columns named in cols
MissingIn(d, r, cols) ==
    \E i \in 1..Len(d) : d[i].name \in cols /\ IsMissing(d[i].cells[r])

\* df.dropna(subset=cols)
DropNa(d, cols) ==
    TakeRows(d, Filter(NRows(d), [r \in 1..NRows(d) |-> ~MissingIn(d, r, cols)]))

\* The value fillna receives: df[col].mean(), .median() or .mode()[0]
FillValue(col, method) ==
    CASE method = "mean" -> Mean(col.cells)
      [] method = "median" -> Median(col.cells)
      [] method = "mode" -> Modes(col.cells)[1]

\* Whether the imputation of one column raises: .mode()[0] of a column with
\* no present value is a KeyError, and a nullable integer column refuses a
\* non-integral fill value
FillRaises(col, method) ==
    \/ method = "mode" /\ Modes(col.cells) = <<>>
    \/ /\ col.dtype = "Int64"
       /\ \E r \in 1..Len(col.cells) : IsMissing(col.cells[r])
       /\ FillValue(col, method).d # 1

\* df[col].fillna(v): a missing v (NaN) fills nothing
FillNa(col, v) ==
    [col EXCEPT !.cells = [r \in 1..Len(col.cells) |->
                              IF IsMissing(col.cells[r]) THEN v ELSE col.cells[r]]]

\* The loop over df.select_dtypes(include=np.number).columns from column i on:
\* each column is assigned in place, and an exception leaves the loop with the
\* columns before it already imputed
RECURSIVE ImputeFrom(_, _, _)
ImputeFrom(d, i, method) ==
    IF i > Len(d) THEN [df |-> d, raised |-> FALSE]
    ELSE IF d[i].dtype \notin NumericDtypes THEN ImputeFrom(d, i + 1, method)
    ELSE IF FillRaises(d[i], method) THEN [df |-> d, raised |-> TRUE]
    ELSE ImputeFrom([d EXCEPT ![i] = FillNa(d[i], FillValue(d[i], method))], i + 1, method)

\* handle_missing_values(df, strategy, method): the Dataset it leaves and
\* whether it raised
handle_missing_values(d, strategy, method) ==
    CASE strategy = "drop" -> [df |-> DropNa(d, Range(ColNames(d))), raised |-> FALSE]
      [] strategy = "impute" -> ImputeFrom(d, 1, method)
      [] OTHER -> [df |-> d, raised |-> FALSE]

\* One pass of the loop of convert_column_types: an exception is caught and
\* the column is left as it was
ConvertColumn(col, dtype) ==
    CASE dtype = "int" ->
            IF Int64CastRaises(ToNumeric(col)) THEN col ELSE AsTypeInt64(ToNumeric(col))
      [] dtype = "float" -> ToNumeric(col)
      [] dtype = "str" -> AsTypeStr(col)

\* convert_column_types(df, conversions), conversions a function from column
\* names to target types
convert_column_types(d, conversions) ==
    [i \in 1..Len(d) |->
        IF d[i].name \in DOMAIN conversions
        THEN ConvertColumn(d[i], conversions[d[i].name]) ELSE d[i]]

\* The cells of row r in the columns named in cols
KeyOf(d, r, cols) ==
    [i \in {j \in 1..Len(d) : d[j].name \in cols} |-> d[i].cells[r]]

\* A deduplicator that keeps the last row of each key (keep="last")
remove_duplicates_keep_last(d, subset_cols) ==
    TakeRows(d, Filter(NRows(d),
        [r \in 1..NRows(d) |->
            \A q \in (r + 1)..NRows(d) : KeyOf(d, q, subset_cols) # KeyOf(d, r, subset_cols)]))

\* df.drop_duplicates(subset=subset_cols): the first row of each key is kept
remove_duplicates(d, subset_cols) ==
    TakeRows(d, Filter(NRows(d),
        [r \in 1..NRows(d) |->
            \A q \in 1..(r - 1) : KeyOf(d, q, subset_cols) # KeyOf(d, r, subset_cols)]))

\* The threshold of abs(z-score)
ZThreshold == 3

\* The number of rows of a column with abs(z) > 3, where z = (x - mean) / std
\* and std is the sample standard deviation of the present values. With the
\* present values scaled to integers x, m of them, sum s and dev(x) = m*x - s:
\* abs(z) > 3 iff dev(x)^2 * (m - 1) > 9 * (sum of dev^2). A column of fewer
\* than two present values, or of equal ones, has z = NaN in every row.
OutlierCount(cells) ==
    LET p == Present(cells)
        m == Len(p)
        RECURSIVE Lcd(_)
        Lcd(k) == IF k = 0 THEN 1
                  ELSE LET l == Lcd(k - 1) IN (l * p[k].d) \div Gcd(l, p[k].d)
        scale == Lcd(m)
        x == [k \in 1..m |-> p[k].n * (scale \div p[k].d)]
        RECURSIVE SumTo(_, _)
        SumTo(f, k) == IF k = 0 THEN 0 ELSE f[k] + SumTo(f, k - 1)
        s == SumTo(x, m)
        dev == [k \in 1..m |-> m * x[k] - s]
        v == SumTo([k \in 1..m |-> dev[k] * dev[k]], m)
    IN  IF m < 2 \/ v = 0 THEN 0
        ELSE Cardinality({k \in 1..m :
                dev[k] * dev[k] * (m - 1) > ZThreshold * ZThreshold * v})

\* A detector that divides as plain arithmetic does: a column of equal values
\* (standard deviation zero) raises
detect_outliers_dividing(d) ==
    LET constant(col) ==
            /\ Len(Present(col.cells)) >= 2
            /\ \A r, q \in 1..Len(Present(col.cells)) :
                    Present(col.cells)[r] = Present(col.cells)[q]
        hit == {i \in 1..Len(d) :
                    d[i].dtype \in NumericDtypes /\ OutlierCount(d[i].cells) > 0}
    IN  [report |-> [name \in {d[i].name : i \in hit} |->
                        OutlierCount(d[CHOOSE i \in hit : d[i].name = name].cells)],
         raised |-> \E i \in 1..Len(d) : d[i].dtype \in NumericDtypes /\ constant(d[i])]

\* detect_outliers(df): the report, a function from the names of the numeric
\* columns with a positive count to that count. Nothing in it raises: a
\* division by a zero or undefined standard deviation gives NaN, and NaN > 3
\* is false.
detect_outliers(d) ==
    LET hit == {i \in 1..Len(d) :
                    d[i].dtype \in NumericDtypes /\ OutlierCount(d[i].cells) > 0}
    IN  [report |-> [name \in {d[i].name : i \in hit} |->
                        OutlierCount(d[CHOOSE i \in hit : d[i].name = name].cells)],
         raised |-> FALSE]

ValidPhone == <<"v","a","l","i","d","_","p","h","o","n","e">>
ValidEmail == <<"v","a","l","i","d","_","e","m","a","i","l">>

\* An assignment that appends the flag column on every run
SetColumnAppending(d, flag, cells) == Append(d, Column(flag, "bool", cells))

\* df[flag] = cells: an existing column of that name is overwritten where it
\* stands, otherwise the column is appended
SetColumn(d, flag, cells) ==
    IF HasColumn(d, flag)
    THEN [d EXCEPT ![ColIndex(d, flag)] = Column(flag, "bool", cells)]
    ELSE Append(d, Column(flag, "bool", cells))

\* df["valid_phone"] = df[phone_col].astype(str).str.fullmatch(pattern).fillna(False)
validate_phone_numbers(d, phone_col) ==
    LET t == AsTypeStr(d[ColIndex(d, phone_col)])
    IN  SetColumn(d, ValidPhone, [r \in 1..Len(t.cells) |-> Bool(PhoneMatches(t.cells[r].s))])

\* df["valid_email"] = df[email_col].astype(str).str.fullmatch(pattern).fillna(False)
validate_email_addresses(d, email_col) ==
    LET t == AsTypeStr(d[ColIndex(d, email_col)])
    IN  SetColumn(d, ValidEmail, [r \in 1..Len(t.cells) |-> Bool(EmailMatches(t.cells[r].s))])

----------------------------------------------------------------------------
(* The session and its actions                                             *)

NoDataset == <<>>
NoReport == <<>>
NoConversions == <<>>

Session == [df |-> df, original_df |-> original_df, loaded |-> loaded]

\* The history record of an action: its name, the columns, the argument
\* (strategy, method, case or outcome) and the conversions it was given,
\* whether it raised, and the report it returned
Did(op, cols, arg, conv, raised, report) ==
    [op |-> op, cols |-> cols, arg |-> arg, conv |-> conv, raised |-> raised,
     report |-> report]

Names == Range(ColNames(df))

\* What a multiselect of df.columns can return to a handler that runs
ColumnChoices == SUBSET Names \ {{}}

\* An operation of the pipeline on the Dataset the session holds: the result
\* replaces it, the backup and the remote table are not touched. The
\* operations other than standardize_column_names are taken on Datasets whose
\* column names are distinct (df[col] is then one column).
Apply(result, record) ==
    /\ loaded
    /\ ops_left > 0
    /\ ops_left' = ops_left - 1
    /\ df' = result
    /\ last' = record
    /\ UNCHANGED <<original_df, loaded, table>>

StandardizeColumnNames ==
    Apply(standardize_column_names(df),
          Did("standardize_column_names", {}, "", NoConversions, FALSE, NoReport))

TrimWhitespaces ==
    /\ UniqueNames(df)
    /\ \E cols \in ColumnChoices :
        Apply(trim_whitespaces(df, cols),
              Did("trim_whitespaces", cols, "", NoConversions, FALSE, NoReport))

NormalizeCase ==
    /\ UniqueNames(df)
    /\ \E cols \in ColumnChoices, case_type \in {"lower", "upper"} :
        Apply(normalize_case(df, cols, case_type),
              Did("normalize_case", cols, case_type, NoConversions, FALSE, NoReport))

CapitalizeWords ==
    /\ UniqueNames(df)
    /\ \E cols \in ColumnChoices :
        Apply(capitalize_words(df, cols),
              Did("capitalize_words", cols, "", NoConversions, FALSE, NoReport))

\* The drop branch of the host: the button is offered when some row holds a
\* missing value in the selected columns
DropTheseRows ==
    /\ UniqueNames(df)
    /\ \E drop_cols \in ColumnChoices :
        /\ \E r \in 1..NRows(df) : MissingIn(df, r, drop_cols)
        /\ Apply(DropNa(df, drop_cols),
                 Did("drop_these_rows", drop_cols, "drop", NoConversions, FALSE, NoReport))

\* handle_missing_values(df, strategy="drop"): the columns the caller wants
\* checked cannot be passed, the function has no parameter for them
HandleMissingDrop ==
    /\ UniqueNames(df)
    /\ \E wanted \in ColumnChoices :
        LET out == handle_missing_values(df, "drop", "")
        IN  Apply(out.df,
                  Did("handle_missing_values", wanted, "drop", NoConversions,
                      out.raised, NoReport))

\* The impute branch of the host
ImputeMissingValues ==
    /\ UniqueNames(df)
    /\ \E method \in {"mean", "median", "mode"} :
        LET out == handle_missing_values(df, "impute", method)
        IN  Apply(out.df,
                  Did("handle_missing_values", {}, method, NoConversions,
                      out.raised, NoReport))

ConversionTypes == {"int", "float", "str"}

ApplyTypeConversion ==
    /\ UniqueNames(df)
    /\ \E cols \in ColumnChoices :
        \E conversions \in [cols -> ConversionTypes] :
            Apply(convert_column_types(df, conversions),
                  Did("convert_column_types", cols, "", conversions, FALSE, NoReport))

RemoveDuplicates ==
    /\ UniqueNames(df)
    /\ \E dup_cols \in ColumnChoices :
        Apply(remove_duplicates(df, dup_cols),
              Did("remove_duplicates", dup_cols, "", NoConversions, FALSE, NoReport))

RemoveExtraTitles ==
    /\ UniqueNames(df)
    /\ \E name_col \in Names :
        Apply(remove_extra_titles(df, name_col),
              Did("remove_extra_titles", {name_col}, "", NoConversions, FALSE, NoReport))

ValidatePhoneNumbers ==
    /\ UniqueNames(df)
    /\ \E phone_col \in Names :
        Apply(validate_phone_numbers(df, phone_col),
              Did("validate_phone_numbers", {phone_col}, "", NoConversions, FALSE, NoReport))

ValidateEmailAddresses ==
    /\ UniqueNames(df)
    /\ \E email_col \in Names :
        Apply(validate_email_addresses(df, email_col),
              Did("validate_email_addresses", {email_col}, "", NoConversions, FALSE, NoReport))

DetectOutliers ==
    /\ UniqueNames(df)
    /\ Apply(df, Did("detect_outliers", {}, "", NoConversions,
                      detect_outliers(df).raised, detect_outliers(df).report))

\* The ways the "Connect and Fetch" handler ends
FetchOutcomes == {"connection_failed", "no_table_name", "fetch_failed", "fetched"}

\* A handler that stores the empty result of a fetch that raised
FetchResultStoresFailure(outcome) ==
    CASE outcome = "fetched" -> [df |-> table, original_df |-> table, loaded |-> TRUE]
      [] outcome = "fetch_failed" ->
            [df |-> NoDataset, original_df |-> NoDataset, loaded |-> TRUE]
      [] OTHER -> Session

\* What the handler stores under a given outcome: only a fetch that returned
\* stores the table, as the backup copy and as the Dataset
FetchResult(outcome) ==
    IF outcome = "fetched"
    THEN [df |-> table, original_df |-> table, loaded |-> TRUE]
    ELSE Session

ConnectAndFetch ==
    \E outcome \in FetchOutcomes :
        /\ df' = FetchResult(outcome).df
        /\ original_df' = FetchResult(outcome).original_df
        /\ loaded' = FetchResult(outcome).loaded
        /\ last' = Did("connect_and_fetch", {}, outcome, NoConversions, FALSE, NoReport)
        /\ UNCHANGED <<table, ops_left>>

\* The ways the "Update SQL Table" handler ends
UpdateOutcomes == {"not_confirmed", "engine_failed", "write_failed", "written"}

\* The session after the handler: df.to_sql reads the Dataset
UpdateResult(outcome) == Session

\* A table cannot hold two columns of one name: such a write fails
UpdateSqlTable ==
    /\ loaded
    /\ \E outcome \in UpdateOutcomes :
        /\ outcome = "written" => UniqueNames(df) /\ df # NoDataset
        /\ table' = IF outcome = "written" THEN df ELSE table
        /\ df' = UpdateResult(outcome).df
        /\ original_df' = UpdateResult(outcome).original_df
        /\ loaded' = UpdateResult(outcome).loaded
        /\ last' = Did("update_sql_table", {}, outcome, NoConversions, FALSE, NoReport)
        /\ UNCHANGED ops_left

----------------------------------------------------------------------------
(* The tables a fetch can return, and the specifications                   *)

\* The columns of a name and dtype with n rows of cells drawn from a set
Columns(name, dtype, cells, n) == {Column(name, dtype, c) : c \in [1..n -> cells]}

\* The tables of two columns
Tables2(A, B) == {<<a, b>> : a \in A, b \in B}

\* The session before any fetch, with remote table t and n operations allowed
Start(t, n) ==
    /\ table = t
    /\ df = NoDataset
    /\ original_df = NoDataset
    /\ loaded = FALSE
    /\ ops_left = n
    /\ last = Did("start", {}, "", NoConversions, FALSE, NoReport)

\* The session right after a successful fetch of table t, with n operations
\* allowed
Fetched(t, n) ==
    /\ table = t
    /\ df = t
    /\ original_df = t
    /\ loaded = TRUE
    /\ ops_left = n
    /\ last = Did("connect_and_fetch", {}, "fetched", NoConversions, FALSE, NoReport)

\* The cleaning operations of one run of the session's specification
MainOps == 1

\* The cleaning operations of one run of the specifications of repeated
\* operations
MaxOps == 2

MainCells == {Missing, Str(<<"M","r"," ","1">>)}

\* The tables of the session's specification: one row under two text columns,
\* whose names the Column Normalizer maps to one name (second = "a_b") or not
MainTables(second) ==
    Tables2(Columns(<<"A"," ","b">>, "object", MainCells, 1),
            Columns(second, "object", MainCells, 1))

Init == \E second \in {<<"a","_","b">>, <<"c">>} :
            \E t \in MainTables(second) : Start(t, MainOps)

Next ==
    \/ ConnectAndFetch
    \/ UpdateSqlTable
    \/ StandardizeColumnNames
    \/ TrimWhitespaces
    \/ NormalizeCase
    \/ CapitalizeWords
    \/ DropTheseRows
    \/ HandleMissingDrop
    \/ ImputeMissingValues
    \/ ApplyTypeConversion
    \/ RemoveDuplicates
    \/ RemoveExtraTitles
    \/ ValidatePhoneNumbers
    \/ ValidateEmailAddresses
    \/ DetectOutliers

Spec == Init /\ [][Next]_vars

\* The column names of the Column Normalizer's specification
MaxNameLen == 3

NameAlphabet == {"A", "b", "1", "_", "-", " "}

\* The tables with a first column of a name of n characters
NameTables(n) ==
    {t \in Tables2(UNION {Columns(name, "object", {Str(<<"x">>)}, 1) :
                            name \in [1..n -> NameAlphabet]},
                   UNION {Columns(name, "float64", {Missing}, 1) :
                            name \in {<<"i","d">>, <<"A","_","b">>}}) :
        UniqueNames(t)}

InitNames == \E n \in 1..MaxNameLen : \E t \in NameTables(n) : Fetched(t, 1)

NextNames == StandardizeColumnNames

SpecNames == InitNames /\ [][NextNames]_vars

\* The name cells of the Title Stripper's specification: every text of up to
\* MaxTitleLen characters, and the two names of the specification's example
MaxTitleLen == 4

TitleAlphabet == {"D", "r", "M", "s", ".", " ", "J"}

\* The texts of n characters, and with the longest ones the two names
TitleTexts(n) ==
    [1..n -> TitleAlphabet]
        \cup (IF n < MaxTitleLen THEN {}
              ELSE {<<"D","r","."," ","J","a","n","e"," ","S","m","i","t","h">>,
                    <<"J","a","n","e"," ","D","r","."," ","S","m","i","t","h">>})

TitleTables(n) ==
    {<<c>> : c \in Columns(<<"n","a","m","e">>, "object", {Str(t) : t \in TitleTexts(n)}, 1)}

InitTitles == \E n \in 1..MaxTitleLen : \E t \in TitleTables(n) : Fetched(t, 1)

NextTitles == RemoveExtraTitles

SpecTitles == InitTitles /\ [][NextTitles]_vars

\* The tables of the Type Converter's specification: two text columns
MaxConvertRows == 3

ConvertTables(n) ==
    Tables2(Columns(<<"a">>, "object",
                    {Str(<<"1">>), Str(<<"x">>), Str(<<"3">>), Str(<<"2",".","5">>)}, n),
            Columns(<<"b">>, "object", {Str(<<"7">>), Missing}, n))

InitConvert == \E n \in 1..MaxConvertRows : \E t \in ConvertTables(n) : Fetched(t, 1)

NextConvert == ApplyTypeConversion

SpecConvert == InitConvert /\ [][NextConvert]_vars

\* The tables of the imputation's specification: two text columns, which a
\* conversion makes numeric (a column of unparseable text becomes a numeric
\* column of missing values)
MaxImputeRows == 2

ImputeTables(n) ==
    Tables2(Columns(<<"a">>, "object", {Str(<<"1">>), Str(<<"2">>), Str(<<"x">>)}, n),
            Columns(<<"b">>, "object", {Str(<<"4">>), Str(<<"x">>)}, n))

InitImpute == \E n \in 1..MaxImputeRows : \E t \in ImputeTables(n) : Fetched(t, MaxOps)

NextImpute == ApplyTypeConversion \/ ImputeMissingValues

SpecImpute == InitImpute /\ [][NextImpute]_vars

\* The tables of the specification of the row operations: two text columns
MaxDedupRows == 3

RowTables(n) ==
    Tables2(Columns(<<"k">>, "object", {Missing, Str(<<"a">>), Str(<<"b">>)}, n),
            Columns(<<"v">>, "object", {Missing, Str(<<"a">>), Str(<<"b">>)}, n))

InitRows == \E n \in 1..MaxDedupRows : \E t \in RowTables(n) : Fetched(t, 1)

NextRows == DropTheseRows \/ HandleMissingDrop \/ RemoveDuplicates

SpecRows == InitRows /\ [][NextRows]_vars

\* The tables of the validators' specification: a phone and an email column
MaxFlagRows == 2

GoodPhone == <<"+","9","1","-","9","8","7","6","5","4","3","2","1","0">>
BadPhone == <<"5","8","7","6","5","4","3","2","1","0">>
GoodEmail == <<"a",".","b","@","e","x",".","c","o","m">>
BadEmail == <<"n","o","t","-","a","n","-","e","m","a","i","l">>

FlagTables(n) ==
    Tables2(Columns(<<"p","h","o","n","e">>, "object",
                    {Missing, Str(GoodPhone), Str(BadPhone)}, n),
            Columns(<<"e","m","a","i","l">>, "object",
                    {Missing, Str(GoodEmail), Str(BadEmail)}, n))

InitFlags == \E n \in 1..MaxFlagRows : \E t \in FlagTables(n) : Fetched(t, MaxOps)

NextFlags == ValidatePhoneNumbers \/ ValidateEmailAddresses

SpecFlags == InitFlags /\ [][NextFlags]_vars

\* The tables of the Outlier Detector's specification: a numeric column x of
\* every combination of two values, beside a column y that is constant, holds
\* missing values only, has one present value, or has one far value
OutlierRows == 11

OutlierTables(n) ==
    Tables2(Columns(<<"x">>, "float64", {Num(0, 1), Num(1, 1)}, n),
            {Column(<<"y">>, "float64", [r \in 1..n |-> Num(5, 1)]),
             Column(<<"y">>, "float64", [r \in 1..n |-> Missing]),
             Column(<<"y">>, "float64",
                    [r \in 1..n |-> IF r = 1 THEN Num(5, 1) ELSE Missing]),
             Column(<<"y">>, "Int64",
                    [r \in 1..n |-> IF r = n THEN Num(100, 1) ELSE Num(r % 2, 1)]),
             Column(<<"y">>, "object", [r \in 1..n |-> Str(<<"5">>)])})

InitOutliers == \E n \in 1..OutlierRows : \E t \in OutlierTables(n) : Fetched(t, 1)

NextOutliers == DetectOutliers

SpecOutliers == InitOutliers /\ [][NextOutliers]_vars

----------------------------------------------------------------------------
(* The claims                                                              *)

\* C1: in every Dataset the session reaches from a fetched table by cleaning
\* operations, the column names are pairwise distinct.
C1_ColumnNamesDistinct == loaded => UniqueNames(df)

\* C6: standardize_column_names is idempotent: applied to its own result it
\* returns the same column names, and an application leaves the rows as they
\* were.
C6_StandardizeIdempotent ==
    [][last'.op = "standardize_column_names" =>
        /\ ColNames(standardize_column_names(df')) = ColNames(df')
        /\ Rows(df') = Rows(df)
        /\ [i \in 1..Len(df') |-> df'[i].dtype] = [i \in 1..Len(df) |-> df[i].dtype]]_vars

\* C6 witness: an application that renamed a column, stripping whitespace
\* from its name
C6_Witness ==
    /\ last.op = "standardize_column_names"
    /\ ColNames(df) # ColNames(original_df)
    /\ \E i \in 1..Len(df) : df[i].name # SubNonWord(Lower(original_df[i].name))

\* C9: a "Connect and Fetch" that fails and an "Update SQL Table" that fails
\* leave the session's Dataset and its backup as they were, and the backup and
\* the presence of a Dataset change only in a fetch that succeeded.
C9_FailuresKeepSession ==
    [][/\ \/ last'.op = "connect_and_fetch" /\ last'.arg # "fetched"
          \/ last'.op = "update_sql_table" /\ last'.arg # "written"
          => UNCHANGED <<df, original_df, loaded>>
       /\ original_df' # original_df \/ loaded' # loaded
          => last'.op = "connect_and_fetch" /\ last'.arg = "fetched"]_vars

\* C9 witness: a fetch fails in a session whose Dataset has been cleaned and
\* differs from its backup
C9_Witness ==
    /\ last.op = "connect_and_fetch"
    /\ last.arg = "fetch_failed"
    /\ loaded
    /\ df # original_df

\* The text the claim C2 gives for a cell: a leading honorific token, with an
\* optional period and the whitespace after it, is removed, and nothing else
LeadingTitleStripped(s) ==
    LET hits == {a \in DOMAIN Honorifics :
                    /\ MatchesAt(s, 1, Honorifics[a])
                    /\ Len(Honorifics[a]) < Len(s) => ~IsWord(s[Len(Honorifics[a]) + 1])}
    IN  IF hits = {} THEN s
        ELSE LET j == Len(Honorifics[CHOOSE a \in hits : TRUE]) + 1
                 k == IF j <= Len(s) /\ s[j] = "." THEN j + 1 ELSE j
             IN  From(s, SkipSpaces(s, k))

\* C2: remove_extra_titles removes from every cell of the name column only an
\* honorific at the start of the cell; an honorific later in the text is left,
\* and a cell whose first token is no honorific is returned unchanged.
C2_OnlyLeadingTitleRemoved ==
    [][last'.op = "remove_extra_titles" =>
        \A i \in 1..Len(df) : df[i].name \in last'.cols =>
            \A r \in 1..NRows(df) :
                df'[i].cells[r] = Str(LeadingTitleStripped(ToStr(df[i].cells[r], df[i].dtype)))]_vars

\* The cell the claim C3 gives for a cell converted to a target type: the
\* value when it parses as the target type, missing when it does not
ConvertedCell(c, dtype, target) ==
    LET v == IF c.k = "num" THEN [ok |-> TRUE, n |-> c.n, d |-> c.d]
             ELSE IF c.k = "str"
                  THEN LET q == ParseNumber(c.s) IN [ok |-> q.ok, n |-> q.n, d |-> q.d]
                  ELSE [ok |-> FALSE, n |-> 0, d |-> 1]
    IN  CASE target = "str" -> Str(ToStr(c, dtype))
          [] target = "float" -> IF v.ok THEN Num(v.n, v.d) ELSE Missing
          [] target = "int" -> IF v.ok /\ Num(v.n, v.d).d = 1 THEN Num(v.n, v.d) ELSE Missing

\* C3: convert_column_types converts, in every column of the mapping, each
\* cell that parses as the target type and makes each other cell missing; no
\* column's conversion is discarded as a whole.
C3_EveryColumnConvertedCellwise ==
    [][last'.op = "convert_column_types" =>
        /\ ~last'.raised
        /\ \A i \in 1..Len(df) : df[i].name \in DOMAIN last'.conv =>
                \A r \in 1..NRows(df) :
                    df'[i].cells[r] =
                        ConvertedCell(df[i].cells[r], df[i].dtype, last'.conv[df[i].name])]_vars

AllMissing(col) == \A r \in 1..Len(col.cells) : IsMissing(col.cells[r])

\* C4: imputation of a Dataset with a numeric column of missing values only
\* either returns with that column unchanged and every other numeric column
\* imputed, or signals an error and leaves the whole Dataset as it was.
C4_ImputeAllOrNothing ==
    [][/\ last'.op = "handle_missing_values"
       /\ last'.arg \in {"mean", "median", "mode"}
       /\ \E i \in 1..Len(df) : df[i].dtype \in NumericDtypes /\ AllMissing(df[i])
       => IF last'.raised THEN df' = df
          ELSE \A i \in 1..Len(df) : df[i].dtype \in NumericDtypes =>
                  IF AllMissing(df[i]) THEN df'[i] = df[i]
                  ELSE \A r \in 1..NRows(df) : ~IsMissing(df'[i].cells[r])]_vars

\* The rows of d with no missing value in the columns named in cols
RowsWithout(d, cols) == {r \in 1..NRows(d) : ~MissingIn(d, r, cols)}

\* The k-th smallest element of a set of row indices
Nth(S, k) == CHOOSE r \in S : Cardinality({q \in S : q < r}) = k - 1

\* Dataset e holds exactly the rows of d at the indices of S, in their order,
\* under the same columns
HoldsRows(e, d, S) ==
    /\ ColNames(e) = ColNames(d)
    /\ NRows(e) = Cardinality(S)
    /\ \A j \in 1..NRows(e) : Row(e, j) = Row(d, Nth(S, j))

\* C5: the drop strategy removes a row if and only if one of the columns the
\* caller specified holds a missing value in it; the rows retained keep their
\* order.
C5_DropsOnlyRowsMissingInSpecified ==
    [][/\ last'.op \in {"drop_these_rows", "handle_missing_values"}
       /\ last'.arg = "drop"
       => HoldsRows(df', df, RowsWithout(df, last'.cols))]_vars

\* The rows of d that are the first of their key in the columns named in cols
FirstOfKey(d, cols) ==
    {r \in 1..NRows(d) : \A q \in 1..NRows(d) :
        KeyOf(d, q, cols) = KeyOf(d, r, cols) => r <= q}

\* C7: remove_duplicates returns exactly the rows that are the first of their
\* key, in their order: no more rows than before, any two retained rows differ
\* in a key column, and every key of the input appears in the result.
C7_FirstOccurrencesKept ==
    [][last'.op = "remove_duplicates" =>
        /\ HoldsRows(df', df, FirstOfKey(df, last'.cols))
        /\ NRows(df') <= NRows(df)
        /\ \A r, q \in 1..NRows(df') :
                KeyOf(df', r, last'.cols) = KeyOf(df', q, last'.cols) => r = q
        /\ \A r \in 1..NRows(df) : \E q \in 1..NRows(df') :
                KeyOf(df', q, last'.cols) = KeyOf(df, r, last'.cols)]_vars

\* C7 witness: a deduplication on one key column dropped a row that differs
\* from the retained one, and retained several rows
C7_Witness ==
    /\ last.op = "remove_duplicates"
    /\ Cardinality(last.cols) = 1
    /\ NRows(df) = 2
    /\ NRows(original_df) = 3
    /\ \E r \in 1..3 : \A q \in 1..2 : Row(original_df, r) # Row(df, q)

FlagOf(op) == IF op = "validate_phone_numbers" THEN ValidPhone ELSE ValidEmail

FlagMatches(op, text) ==
    IF op = "validate_phone_numbers" THEN PhoneMatches(text) ELSE EmailMatches(text)

\* What both statements of C8 share: the rows are as many as before, every
\* column that existed under another name than the flag's is as it was, one
\* column has the flag's name, and it holds the flags of the source column's
\* text in this run
FlagColumnWritten(op, source, before, after) ==
    /\ NRows(after) = NRows(before)
    /\ \A i \in 1..Len(before) : before[i].name # FlagOf(op) => after[i] = before[i]
    /\ Len(after) = Len(before) + (IF HasColumn(before, FlagOf(op)) THEN 0 ELSE 1)
    /\ Cardinality({i \in 1..Len(after) : after[i].name = FlagOf(op)}) = 1
    /\ LET src == before[ColIndex(before, source)]
           flag == after[ColIndex(after, FlagOf(op))]
       IN  /\ flag.dtype = "bool"
           /\ \A r \in 1..NRows(before) :
                 flag.cells[r] = Bool(FlagMatches(op, ToStr(src.cells[r], src.dtype)))

IsValidation(op) == op \in {"validate_phone_numbers", "validate_email_addresses"}

\* C8 as stated: a validator leaves the source column and every other column
\* that existed as it was, and after any number of runs one column has the
\* flag's name and holds the flags of the latest run.
C8_SourceAndOthersUnchanged ==
    [][IsValidation(last'.op) =>
        \A source \in last'.cols :
            /\ FlagColumnWritten(last'.op, source, df, df')
            /\ df'[ColIndex(df, source)] = df[ColIndex(df, source)]]_vars

\* C8 as amended: the same, for a source column other than the flag column
\* itself; a validator given its own flag column as the source overwrites it.
C8_OthersUnchangedFlagOverwritten ==
    [][IsValidation(last'.op) =>
        \A source \in last'.cols :
            /\ FlagColumnWritten(last'.op, source, df, df')
            /\ source # FlagOf(last'.op) =>
                    df'[ColIndex(df, source)] = df[ColIndex(df, source)]]_vars

\* C8 witness: the phone validator has run twice on the phone column and
\* flagged a number
C8_Witness ==
    /\ last.op = "validate_phone_numbers"
    /\ last.cols = {<<"p","h","o","n","e">>}
    /\ ops_left = MaxOps - 2
    /\ Len(df) = 3
    /\ \E r \in 1..NRows(df) : df[3].cells[r] = Bool(TRUE)

SquaredDeviation(v, mean) ==
    LET diff == RatAdd(v, Num(-mean.n, mean.d)) IN Num(diff.n * diff.n, diff.d * diff.d)

\* The rows of a column whose value has abs(z) > 3, computed from the column's
\* mean: with m present values, (x - mean)^2 * (m - 1) > 9 * (the sum of the
\* squared deviations of the present values)
FarRows(cells) ==
    LET p == Present(cells)
        mean == Mean(cells)
        sq == [r \in 1..Len(cells) |->
                  IF IsMissing(cells[r]) THEN Missing ELSE SquaredDeviation(cells[r], mean)]
        total == RatSum(Present(sq))
        bound == Num(ZThreshold * ZThreshold * total.n, total.d)
    IN  IF Len(p) < 2 THEN {}
        ELSE {r \in 1..Len(cells) :
                /\ ~IsMissing(cells[r])
                /\ RatLess(bound, Num(sq[r].n * (Len(p) - 1), sq[r].d))}

\* C10: detect_outliers never raises; a numeric column whose present values
\* are all equal is not in the report; and a numeric column is in the report
\* if and only if it holds a value with abs(z) > 3, with the number of such
\* values as its count.
C10_ReportHoldsColumnsWithOutliers ==
    last.op = "detect_outliers" =>
        /\ ~last.raised
        /\ \A i \in 1..Len(df) :
            LET far == Cardinality(FarRows(df[i].cells))
            IN  IF df[i].dtype \in NumericDtypes /\ far > 0
                THEN /\ df[i].name \in DOMAIN last.report
                     /\ last.report[df[i].name] = far
                ELSE df[i].name \notin DOMAIN last.report
        /\ \A i \in 1..Len(df) :
            (\A r, q \in 1..NRows(df) :
                IsMissing(df[i].cells[r]) \/ IsMissing(df[i].cells[q])
                    \/ df[i].cells[r] = df[i].cells[q])
            => df[i].name \notin DOMAIN last.report

\* C10 witness: a report taken on a Dataset with a constant column and a
\* column that holds an outlier
C10_Witness ==
    /\ last.op = "detect_outliers"
    /\ <<"x">> \in DOMAIN last.report
    /\ <<"y">> \notin DOMAIN last.report
    /\ df[2].dtype = "float64"
    /\ \A r \in 1..NRows(df) : df[2].cells[r] = Num(5, 1)

=============================================================================
